---- MODULE Spec2Model ----
(***************************************************************************)
(* Risk scoring of the two weather dashboards:                             *)
(*   ChokepointRiskDashboard.py        preset "chokepoint-transit"         *)
(*   PortOperationsWeatherDashboard.py preset "port-operations"            *)
(* and the MaritimeDashboard class that ChokepointRiskDashboard.py also    *)
(* holds ("maritime-dashboard", which is no preset).                       *)
(*                                                                         *)
(* Weather values are floats in the source.  They are represented here as  *)
(* integers counting hundredths of the source unit (wind 19.99 km/h is     *)
(* 1999, visibility 10000.01 m is 1000001, precipitation 0.5 mm is 50), so *)
(* that every threshold of the source and both of its neighbours exist.    *)
(***************************************************************************)
EXTENDS Integers, Sequences, FiniteSets, TLC

VARIABLES preset, feed, i, pc, h, results, raised, frames, metrics, chokepoints

vars == <<preset, feed, i, pc, h, results, raised, frames, metrics, chokepoints>>

\* A source value x (an integer number of units), in hundredths.
H(x) == x * 100

\* range(24), [:24]: the window of the assessment.
Window == 24

\* Hours a forecast may hold beyond the window.
ExtraHours == 1

----------------------------------------------------------------------------
\* Python built-ins used by compute_risk.

Range(s) == {s[j] : j \in DOMAIN s}

\* s[a:b] for 0 <= a <= b (indices 0-based, end exclusive, clipped).
Slice(s, a, b) ==
    IF a >= Len(s) THEN << >>
    ELSE SubSeq(s, a + 1, IF b < Len(s) THEN b ELSE Len(s))

\* max(seq), min(seq) of a non-empty sequence.
PyMax(s) == CHOOSE x \in Range(s) : \A y \in Range(s) : y <= x
PyMin(s) == CHOOSE x \in Range(s) : \A y \in Range(s) : x <= y

RECURSIVE PySum(_)
PySum(s) == IF s = << >> THEN 0 ELSE Head(s) + PySum(Tail(s))

\* PyRound with a tie rounded down.
PyRound_half_down(n, d) == (2 * n + d - 1) \div (2 * d)

\* PyRound with a tie rounded up.
PyRound_half_up(n, d) == (2 * n + d) \div (2 * d)

\* round(n / d) for d > 0: Python 3 rounds a tie to the even neighbour.
PyRound(n, d) ==
    LET q == n \div d
        r == n % d
    IN  IF 2 * r < d THEN q
        ELSE IF 2 * r > d THEN q + 1
        ELSE IF q % 2 = 0 THEN q ELSE q + 1

----------------------------------------------------------------------------
\* ChokepointRiskDashboard.py, compute_risk (preset "chokepoint-transit").

\* Cp_window without the slice: every hour of the forecast.
Cp_window_all(seq) == seq

\* hourly[...][:24]: the hours the assessment reads.
Cp_window(seq) == Slice(seq, 0, Window)

\* Cp_wind_risk with the first threshold inclusive.
Cp_wind_risk_inclusive(max_wind) ==
    IF max_wind <= H(20) THEN 5
    ELSE IF max_wind < H(40) THEN 15
    ELSE IF max_wind < H(60) THEN 30
    ELSE 40

\* Wind risk, from the window's maximum wind.
Cp_wind_risk(max_wind) ==
    IF max_wind < H(20) THEN 5
    ELSE IF max_wind < H(40) THEN 15
    ELSE IF max_wind < H(60) THEN 30
    ELSE 40

\* Visibility risk, from the window's minimum visibility.
Cp_vis_risk(min_vis) ==
    IF min_vis > H(10000) THEN 0
    ELSE IF min_vis > H(5000) THEN 5
    ELSE IF min_vis > H(1000) THEN 10
    ELSE 20

\* Precipitation risk, from the window's maximum precipitation.
Cp_precip_risk(max_precip) ==
    IF max_precip = 0 THEN 0
    ELSE IF max_precip < H(2) THEN 5
    ELSE IF max_precip < H(10) THEN 10
    ELSE 20

\* Cp_score adding the visibility risk twice and no precipitation risk.
Cp_score_twice(wind_risk, vis_risk, precip_risk) == wind_risk + vis_risk + vis_risk

Cp_score(wind_risk, vis_risk, precip_risk) == wind_risk + vis_risk + precip_risk

\* Cp_level with the first threshold inclusive.
Cp_level_inclusive(score) ==
    IF score <= 30 THEN "low"
    ELSE IF score < 60 THEN "moderate"
    ELSE "high"

Cp_level(score) ==
    IF score < 30 THEN "low"
    ELSE IF score < 60 THEN "moderate"
    ELSE "high"

Cp_color(score) ==
    IF score < 30 THEN "#2ECC71"
    ELSE IF score < 60 THEN "#F1C40F"
    ELSE "#E74C3C"

\* max_possible = 40 + 20 + 20
Cp_max_possible == 40 + 20 + 20

\* Cp_tdi_score without the scaling to 0..100.
Cp_tdi_score_unscaled(score) == score

\* tdi_score = round((score / max_possible) * 100).  score / 80 is a multiple
\* of 1/16 for every score the code produces (a multiple of 5) and so is
\* exact in binary floating point, as is its product with 100.
Cp_tdi_score(score) == PyRound(score * 100, Cp_max_possible)

Cp_tdi_category(tdi_score) ==
    IF tdi_score < 20 THEN "Routine"
    ELSE IF tdi_score < 40 THEN "Caution"
    ELSE IF tdi_score < 60 THEN "Challenging"
    ELSE IF tdi_score < 80 THEN "Hazardous"
    ELSE "Severe"

\* driver_map is a dict keyed by the risk values: a later entry with an equal
\* key overwrites an earlier one.  (f @@ g keeps f where both are defined.)
Cp_driver_map(wind_risk, vis_risk, precip_risk) ==
    (precip_risk :> "Heavy precipitation")
        @@ (vis_risk :> "Visibility degradation")
        @@ (wind_risk :> "Wind-driven risk")

\* dominant_driver = driver_map[max(driver_map.keys())]
Cp_dominant_driver(wind_risk, vis_risk, precip_risk) ==
    LET driver_map == Cp_driver_map(wind_risk, vis_risk, precip_risk)
        top == CHOOSE k \in DOMAIN driver_map : \A m \in DOMAIN driver_map : m <= k
    IN  driver_map[top]

\* The largest power of two P, from P on, with 3 * P <= 4 * a.
RECURSIVE GrowPow2(_, _)
GrowPow2(P, a) == IF 6 * P <= 4 * a THEN GrowPow2(2 * P, a) ELSE P

RECURSIVE IsPow4(_)
IsPow4(P) == IF P = 1 THEN TRUE ELSE IF P % 4 = 0 THEN IsPow4(P \div 4) ELSE FALSE

\* The double S / 3 minus the real S / 3 for a whole number S, in units of
\* 2^-54 / 3: with 2^E <= |S| / 3 < 2^(E+1) the quotient has 52 - E binary
\* places, the real quotient lies a third or two thirds of a last place above
\* a double and is rounded to the nearer one.
ThirdErr(S) ==
    IF S % 3 = 0 THEN 0
    ELSE LET a == IF S < 0 THEN -S ELSE S
             P == GrowPow2(1, a)
             rem == ((a % 3) * (IF IsPow4(P) THEN 1 ELSE 2)) % 3
             up == IF rem = 1 THEN -P ELSE P
         IN  IF S < 0 THEN -up ELSE up

\* Half the gap between the double c and the next double away from 0, for a
\* whole c > 0, in the same units.
HalfUlp(c) ==
    LET RECURSIVE Above(_)
        Above(P) == IF P > c THEN P ELSE Above(2 * P)
    IN  3 * Above(1)

\* avg(seq): sum(seq) / len(seq), 0.0 for an empty seq.  The float quotient is
\* kept as the real fraction num / den and the rounding error err the division
\* adds to it: the sum of values of whole source units is exact and its
\* third is rounded as ThirdErr says, its half and itself are exact.  Of
\* values that are not whole the rounding error is not carried; the same
\* values have the same average whatever the error.
Cp_avg(seq) ==
    IF seq = << >> THEN [num |-> 0, den |-> 1, err |-> 0]
    ELSE [num |-> PySum(seq), den |-> Len(seq),
          err |-> IF Len(seq) = 3 /\ \A j \in DOMAIN seq : seq[j] % H(1) = 0
                      THEN ThirdErr(PySum(seq) \div H(1))
                  ELSE 0]

\* next - first of two averages: the real difference num / den of the two
\* fractions and the error the two quotients bring into it.
Cp_delta(next, first) ==
    [num |-> next.num * first.den - first.num * next.den,
     den |-> next.den * first.den,
     err |-> next.err - first.err]

\* d > c (c > 0) and d < c (c < 0) for the float difference d and a threshold
\* of c source units.  Away from the threshold the real difference decides;
\* on it the subtraction rounds c + err to a double, which is beyond c only
\* when err is more than half the gap to the next double (the last place of
\* the double c is even, so a tie goes to c).
FracGt(d, c) ==
    IF d.num = H(c) * d.den THEN d.err > HalfUlp(c)
    ELSE d.num > H(c) * d.den

FracLt(d, c) ==
    IF d.num = H(c) * d.den THEN -d.err > HalfUlp(-c)
    ELSE d.num < H(c) * d.den

Cp_outlook_6h(winds, vis, precip) ==
    LET d_wind == Cp_delta(Cp_avg(Slice(winds, 3, 6)), Cp_avg(Slice(winds, 0, 3)))
        d_vis == Cp_delta(Cp_avg(Slice(vis, 3, 6)), Cp_avg(Slice(vis, 0, 3)))
        d_precip == Cp_delta(Cp_avg(Slice(precip, 3, 6)), Cp_avg(Slice(precip, 0, 3)))
        worsening == FracGt(d_wind, 5) \/ FracLt(d_vis, -2000) \/ FracGt(d_precip, 2)
        improving == FracLt(d_wind, -5) \/ FracGt(d_vis, 2000) \/ FracLt(d_precip, -2)
    IN  IF worsening /\ ~improving
            THEN "Conditions deteriorating over the next 6 hours."
        ELSE IF improving /\ ~worsening
            THEN "Conditions improving over the next 6 hours."
        ELSE IF worsening /\ improving
            THEN "Mixed signals: some factors improving, others deteriorating."
        ELSE "Stable conditions expected over the next 6 hours."

\* The risk strip's own copy of the three step functions and of the level.
Cp_hr_w(w) ==
    IF w < H(20) THEN 5
    ELSE IF w < H(40) THEN 15
    ELSE IF w < H(60) THEN 30
    ELSE 40

Cp_hr_v(v) ==
    IF v > H(10000) THEN 0
    ELSE IF v > H(5000) THEN 5
    ELSE IF v > H(1000) THEN 10
    ELSE 20

\* Cp_hr_p taking its last value from another table.
Cp_hr_p_other(p) ==
    IF p = 0 THEN 0
    ELSE IF p < H(2) THEN 5
    ELSE IF p < H(10) THEN 10
    ELSE 30

Cp_hr_p(p) ==
    IF p = 0 THEN 0
    ELSE IF p < H(2) THEN 5
    ELSE IF p < H(10) THEN 10
    ELSE 20

Cp_hr_level(hr_score) ==
    IF hr_score < 30 THEN "low"
    ELSE IF hr_score < 60 THEN "moderate"
    ELSE "high"

\* Cp_hr scoring the peak wind, the lowest visibility and the peak
\* precipitation of the window in every hour.
Cp_hr_peak(winds, vis, precip, j) ==
    LET hr_w == Cp_hr_w(PyMax(winds))
        hr_v == Cp_hr_v(PyMin(vis))
        hr_p == Cp_hr_p(PyMax(precip))
    IN  [w |-> hr_w, v |-> hr_v, p |-> hr_p, score |-> hr_w + hr_v + hr_p]

\* One pass of the strip loop: the hour's three contributions and their sum.
Cp_hr(winds, vis, precip, j) ==
    LET hr_w == Cp_hr_w(winds[j])
        hr_v == Cp_hr_v(vis[j])
        hr_p == Cp_hr_p(precip[j])
    IN  [w |-> hr_w, v |-> hr_v, p |-> hr_p, score |-> hr_w + hr_v + hr_p]

\* The keys of the hourly dict the programs score.
Factors == {"windspeed_10m", "visibility", "precipitation"}

\* The exception compute_risk ends with, "none" when it returns: hourly[...]
\* of a missing key raises KeyError, max() and min() of an empty list raise
\* ValueError, winds[i] past the end IndexError.
Cp_compute_risk_raises(hourly) ==
    IF Factors \ DOMAIN hourly # {} THEN "KeyError"
    ELSE LET winds == Cp_window(hourly.windspeed_10m)
             vis == Cp_window(hourly.visibility)
             precip == Cp_window(hourly.precipitation)
         IN  IF winds = << >> \/ vis = << >> \/ precip = << >> THEN "ValueError"
             ELSE IF Len(winds) < Window \/ Len(vis) < Window \/ Len(precip) < Window
                 THEN "IndexError"
             ELSE "none"

\* range(24), the hours (from 1) the strip loop visits.
Cp_strip_hours(winds) == 1..Window

\* Cp_compute_risk_frame scoring hour 0 of the window in place of the
\* window's peak wind, lowest visibility and peak precipitation.
Cp_compute_risk_frame_reference(hourly) ==
    LET winds == Cp_window(hourly.windspeed_10m)
        vis == Cp_window(hourly.visibility)
        precip == Cp_window(hourly.precipitation)
    IN  [wind |-> Cp_wind_risk(winds[1]),
         visibility |-> Cp_vis_risk(vis[1]),
         precipitation |-> Cp_precip_risk(precip[1]),
         hr |-> [j \in Cp_strip_hours(winds) |-> Cp_hr(winds, vis, precip, j)]]

\* The frame of a compute_risk call that returns: its factor variables and
\* the per-hour values of the strip loop.
Cp_compute_risk_frame(hourly) ==
    LET winds == Cp_window(hourly.windspeed_10m)
        vis == Cp_window(hourly.visibility)
        precip == Cp_window(hourly.precipitation)
    IN  [wind |-> Cp_wind_risk(PyMax(winds)),
         visibility |-> Cp_vis_risk(PyMin(vis)),
         precipitation |-> Cp_precip_risk(PyMax(precip)),
         hr |-> [j \in Cp_strip_hours(winds) |-> Cp_hr(winds, vis, precip, j)]]

\* The dict compute_risk returns.
Cp_compute_risk(hourly) ==
    LET winds == Cp_window(hourly.windspeed_10m)
        vis == Cp_window(hourly.visibility)
        precip == Cp_window(hourly.precipitation)
        f == Cp_compute_risk_frame(hourly)
        score == Cp_score(f.wind, f.visibility, f.precipitation)
        tdi_score == Cp_tdi_score(score)
    IN  [score |-> score,
         level |-> Cp_level(score),
         color |-> Cp_color(score),
         tdi_score |-> tdi_score,
         tdi_category |-> Cp_tdi_category(tdi_score),
         outlook_6h |-> Cp_outlook_6h(winds, vis, precip),
         dominant_driver |-> Cp_dominant_driver(f.wind, f.visibility, f.precipitation),
         hourly_risk_strip |-> [j \in DOMAIN f.hr |-> Cp_hr_level(f.hr[j].score)],
         factors |-> [wind |-> f.wind, visibility |-> f.visibility,
                      precipitation |-> f.precipitation]]

----------------------------------------------------------------------------
\* PortOperationsWeatherDashboard.py, compute_risk (preset "port-operations").

\* Port_reference reading the last hour of the window.
Port_reference_last(seq) == seq[Window]

\* hourly[...][0]: the reference hour.
Port_reference(seq) == seq[1]

\* Port_wind_score with the last threshold exclusive.
Port_wind_score_exclusive(wind) ==
    IF wind <= H(15) THEN 0
    ELSE IF wind <= H(25) THEN 10
    ELSE IF wind <= H(35) THEN 20
    ELSE IF wind < H(45) THEN 35
    ELSE 50

\* WIND SCORE (0-50)
Port_wind_score(wind) ==
    IF wind <= H(15) THEN 0
    ELSE IF wind <= H(25) THEN 10
    ELSE IF wind <= H(35) THEN 20
    ELSE IF wind <= H(45) THEN 35
    ELSE 50

\* VISIBILITY SCORE (0-30)
Port_vis_score(vis) ==
    IF vis > H(10000) THEN 0
    ELSE IF vis > H(5000) THEN 5
    ELSE IF vis > H(2000) THEN 10
    ELSE IF vis > H(500) THEN 20
    ELSE 30

\* The threshold 0.5 of the precipitation score, in hundredths.
PrecipHalf == 50

\* PRECIP SCORE (0-20)
Port_precip_score(precip) ==
    IF precip <= PrecipHalf THEN 0
    ELSE IF precip <= H(2) THEN 5
    ELSE IF precip <= H(5) THEN 10
    ELSE IF precip <= H(10) THEN 15
    ELSE 20

\* min(a, b)
PyMin2(a, b) == IF b < a THEN b ELSE a

\* score = min(wind_score + vis_score + precip_score, 100)
Port_score(wind_score, vis_score, precip_score) ==
    PyMin2(wind_score + vis_score + precip_score, 100)

Port_level(score) ==
    IF score < 30 THEN "low"
    ELSE IF score < 60 THEN "moderate"
    ELSE "high"

Port_color(score) ==
    IF score < 30 THEN "#2ECC71"
    ELSE IF score < 60 THEN "#F1C40F"
    ELSE "#E74C3C"

\* max(drivers, key=drivers.get): the first key, in insertion order wind,
\* visibility, precipitation, whose value is the largest.
Port_dominant(wind_score, vis_score, precip_score) ==
    IF wind_score >= vis_score /\ wind_score >= precip_score THEN "wind"
    ELSE IF vis_score >= precip_score THEN "visibility"
    ELSE "precipitation"

\* 2^m modulo q.
RECURSIVE Pow2Mod(_, _)
Pow2Mod(m, q) == IF m = 0 THEN 1 % q ELSE (2 * Pow2Mod(m - 1, q)) % q

\* The exponent k of a power of two P = 2^k.
RECURSIVE Log2(_)
Log2(P) == IF P = 1 THEN 0 ELSE 1 + Log2(P \div 2)

\* The largest power of two P, from Q up, with 100 * P <= 128 * a.
RECURSIVE Binade(_, _)
Binade(Q, a) == IF 100 * (2 * Q) <= 128 * a THEN Binade(2 * Q, a) ELSE Q

\* response.json() reads a decimal of n hundredths as the nearest double.
\* What the double is above the decimal, in units of 2^-59 / 100: the
\* double's last place is P * 2^-59, and the decimal lies R hundredths of
\* that above a double (R is never 50: 100 does not divide a power of two).
ParseErr(n) ==
    IF n % 100 = 0 THEN 0
    ELSE LET a == IF n < 0 THEN -n ELSE n
             P == Binade(1, a)
             R == ((a % 100) * Pow2Mod(59 - Log2(P), 100)) % 100
             up == IF R < 50 THEN -R * P ELSE (100 - R) * P
         IN  IF n < 0 THEN -up ELSE up

\* Half the spacing of the doubles just above 5, 2^-51, in the same units.
HalfUlp5 == 256 * 100

\* trend > 5 and trend < -5 for trend = wind_future - wind on doubles: off
\* a decimal difference of 5 the order is the decimals'; on it the float
\* difference leaves 5 only when the two reading errors move it by more
\* than half a place (a tie goes to 5, whose last bit is even).
Port_trend_gt(wind, wind_future) ==
    IF wind_future - wind = H(5) THEN ParseErr(wind_future) - ParseErr(wind) > HalfUlp5
    ELSE wind_future - wind > H(5)

Port_trend_lt(wind, wind_future) ==
    IF wind_future - wind = H(-5) THEN ParseErr(wind) - ParseErr(wind_future) > HalfUlp5
    ELSE wind_future - wind < H(-5)

\* The reduced outlook with the two comparisons made on the decimals.
ThresholdOutlook(wind, wind_future) ==
    IF wind_future - wind > H(5) THEN "Deteriorating"
    ELSE IF wind_future - wind < H(-5) THEN "Improving"
    ELSE "Stable"

\* The reduced outlook: hour 6's wind against the reference hour's.
Port_outlook(wind, wind_future) ==
    IF Port_trend_gt(wind, wind_future) THEN "Deteriorating"
    ELSE IF Port_trend_lt(wind, wind_future) THEN "Improving"
    ELSE "Stable"

\* The risk strip's own copy of the three step functions and of the level.
Port_ws(w) ==
    IF w <= H(15) THEN 0
    ELSE IF w <= H(25) THEN 10
    ELSE IF w <= H(35) THEN 20
    ELSE IF w <= H(45) THEN 35
    ELSE 50

Port_vs(v) ==
    IF v > H(10000) THEN 0
    ELSE IF v > H(5000) THEN 5
    ELSE IF v > H(2000) THEN 10
    ELSE IF v > H(500) THEN 20
    ELSE 30

Port_ps(p) ==
    IF p <= PrecipHalf THEN 0
    ELSE IF p <= H(2) THEN 5
    ELSE IF p <= H(5) THEN 10
    ELSE IF p <= H(10) THEN 15
    ELSE 20

Port_strip_level(s) ==
    IF s < 30 THEN "low"
    ELSE IF s < 60 THEN "moderate"
    ELSE "high"

\* One pass of the strip loop: the hour's three contributions and their sum.
Port_hr(hourly, j) ==
    LET ws == Port_ws(hourly.windspeed_10m[j])
        vs == Port_vs(hourly.visibility[j])
        ps == Port_ps(hourly.precipitation[j])
    IN  [w |-> ws, v |-> vs, p |-> ps, score |-> ws + vs + ps]

\* level.capitalize()
Capitalize(level) ==
    CASE level = "low" -> "Low"
      [] level = "moderate" -> "Moderate"
      [] level = "high" -> "High"

\* "tdi_score": int(score)
Port_tdi_score(score) == score

\* The exception reading hour 0 of wind, visibility and precipitation, in
\* that order, ends with: KeyError at a missing key, IndexError at an empty
\* list.
hourly_raises(hourly) ==
    IF "windspeed_10m" \notin DOMAIN hourly THEN "KeyError"
    ELSE IF hourly.windspeed_10m = << >> THEN "IndexError"
    ELSE IF "visibility" \notin DOMAIN hourly THEN "KeyError"
    ELSE IF hourly.visibility = << >> THEN "IndexError"
    ELSE IF "precipitation" \notin DOMAIN hourly THEN "KeyError"
    ELSE IF hourly.precipitation = << >> THEN "IndexError"
    ELSE "none"

\* The exception compute_risk ends with, "none" when it returns: after hour
\* 0, every index past the end of a list ([6], [i] for i < 24) raises
\* IndexError.
Port_compute_risk_raises(hourly) ==
    IF hourly_raises(hourly) # "none" THEN hourly_raises(hourly)
    ELSE IF Len(hourly.windspeed_10m) < Window \/ Len(hourly.visibility) < Window
           \/ Len(hourly.precipitation) < Window
        THEN "IndexError"
    ELSE "none"

\* The strip loop visiting every hour of the forecast.
Port_strip_hours_all(hourly) == DOMAIN hourly.windspeed_10m

\* range(24), the hours (from 1) the strip loop visits.
Port_strip_hours(hourly) == 1..Window

\* The frame of a compute_risk call that returns: its factor variables and
\* the per-hour values of the strip loop.
Port_compute_risk_frame(hourly) ==
    [wind |-> Port_wind_score(Port_reference(hourly.windspeed_10m)),
     visibility |-> Port_vis_score(Port_reference(hourly.visibility)),
     precipitation |-> Port_precip_score(Port_reference(hourly.precipitation)),
     hr |-> [j \in Port_strip_hours(hourly) |-> Port_hr(hourly, j)]]

\* The dict compute_risk returns.
Port_compute_risk(hourly) ==
    LET f == Port_compute_risk_frame(hourly)
        score == Port_score(f.wind, f.visibility, f.precipitation)
        level == Port_level(score)
    IN  [score |-> score,
         level |-> level,
         color |-> Port_color(score),
         dominant_driver |-> Port_dominant(f.wind, f.visibility, f.precipitation),
         outlook_6h |-> Port_outlook(Port_reference(hourly.windspeed_10m),
                                     hourly.windspeed_10m[7]),
         hourly_risk_strip |-> [j \in DOMAIN f.hr |-> Port_strip_level(f.hr[j].score)],
         tdi_score |-> Port_tdi_score(score),
         tdi_category |-> Capitalize(level)]

----------------------------------------------------------------------------
\* compute_global_metrics(chokepoints) of ChokepointRiskDashboard.py and
\* compute_global_metrics(ports) of PortOperationsWeatherDashboard.py: the
\* same loop and level, returned under different keys.  A value that may be
\* None is a list of no or one element.

\* metrics_start with the running maximum starting at 0.
metrics_start_zero ==
    [max_score |-> 0, highest |-> << >>,
     counts |-> [low |-> 0, moderate |-> 0, high |-> 0]]

\* max_score, highest and counts before the loop.
metrics_start ==
    [max_score |-> -1, highest |-> << >>,
     counts |-> [low |-> 0, moderate |-> 0, high |-> 0]]

\* metrics_step counting an entry only when it is the highest so far.
metrics_step_inside(acc, cp) ==
    IF cp.risk.score > acc.max_score
        THEN [max_score |-> cp.risk.score, highest |-> <<cp>>,
              counts |-> [acc.counts EXCEPT ![cp.risk.level] = @ + 1]]
    ELSE acc

\* metrics_step keeping the score of the entry it reads.
metrics_step_last(acc, cp) ==
    [max_score |-> cp.risk.score, highest |-> <<cp>>,
     counts |-> [acc.counts EXCEPT ![cp.risk.level] = @ + 1]]

\* metrics_step taking an entry that equals the highest so far as well.
metrics_step_geq(acc, cp) ==
    [max_score |-> IF cp.risk.score >= acc.max_score THEN cp.risk.score ELSE acc.max_score,
     highest |-> IF cp.risk.score >= acc.max_score THEN <<cp>> ELSE acc.highest,
     counts |-> [acc.counts EXCEPT ![cp.risk.level] = @ + 1]]

\* One pass of the loop, over the entry cp.
metrics_step(acc, cp) ==
    [max_score |-> IF cp.risk.score > acc.max_score THEN cp.risk.score ELSE acc.max_score,
     highest |-> IF cp.risk.score > acc.max_score THEN <<cp>> ELSE acc.highest,
     counts |-> [acc.counts EXCEPT ![cp.risk.level] = @ + 1]]

RECURSIVE metrics_loop(_, _)
metrics_loop(acc, entries) ==
    IF entries = << >> THEN acc
    ELSE metrics_loop(metrics_step(acc, Head(entries)), Tail(entries))

\* global_level with the first threshold inclusive.
global_level_inclusive(max_score) ==
    IF max_score <= 30 THEN "low"
    ELSE IF max_score < 60 THEN "moderate"
    ELSE "high"

global_level(max_score) ==
    IF max_score < 30 THEN "low"
    ELSE IF max_score < 60 THEN "moderate"
    ELSE "high"

Cp_posture_line(level) ==
    IF level = "low"
        THEN "Overall chokepoint risk remains low. Moderate conditions are limited and localized. No high-risk weather disruptions are expected within the next 24 hours."
    ELSE IF level = "moderate"
        THEN "Global chokepoint risk is elevated to moderate. Weather-driven constraints may impact operations at select locations. No widespread high-risk disruptions are currently assessed."
    ELSE "Global chokepoint risk is high. Weather conditions at one or more locations may significantly impact maritime operations within the next 24 hours."

\* The dict the chokepoint dashboard returns.  A formatted line is the list
\* of its literal pieces and of the values formatted between them.
Cp_compute_global_metrics(entries) ==
    LET acc == metrics_loop(metrics_start, entries)
        level == global_level(acc.max_score)
        highest_cp == acc.highest
    IN  [global_index |-> acc.max_score,
         global_level |-> level,
         posture_line |-> Cp_posture_line(level),
         highest_line |->
             IF highest_cp # << >>
                 THEN <<"Highest operational risk: ", highest_cp[1].head.name,
                        " (Score ", highest_cp[1].risk.score, ", ",
                        highest_cp[1].risk.level, " risk).">>
             ELSE <<"No chokepoints currently assessed.">>,
         counts_line |-> <<"Risk distribution: ", acc.counts.low, " low, ",
                           acc.counts.moderate, " moderate, ", acc.counts.high, " high.">>]

\* The dict the port dashboard returns.
Port_compute_global_metrics(ports) ==
    LET acc == metrics_loop(metrics_start, ports)
    IN  [global_level |-> global_level(acc.max_score),
         global_index |-> acc.max_score,
         highest |-> IF acc.highest # << >> THEN <<acc.highest[1].head.name>> ELSE <<"N/A">>,
         counts |-> acc.counts]

----------------------------------------------------------------------------
\* ChokepointRiskDashboard.py, class MaritimeDashboard and its ChokePoint: a
\* chokepoint is its name and its risk_score.

\* RiskLevel, in the order of the enum.
RiskLevel ==
    <<[label |-> "LOW", threshold |-> 5], [label |-> "MODERATE", threshold |-> 30],
      [label |-> "HIGH", threshold |-> 70], [label |-> "CRITICAL", threshold |-> 100]>>

\* for level in RiskLevel: the first level whose threshold the score does not
\* exceed, RiskLevel.CRITICAL when there is none.
first_level(score) ==
    LET fits == {k \in DOMAIN RiskLevel : score <= RiskLevel[k].threshold}
    IN  IF fits = {} THEN RiskLevel[4]
        ELSE RiskLevel[CHOOSE k \in fits : \A m \in fits : k <= m]

get_risk_level(cp) == first_level(cp.risk_score)

\* int(sum / len): the quotient without its fraction (scores are not negative).
get_global_risk_index(cps) ==
    IF cps = << >> THEN 0
    ELSE PySum([k \in DOMAIN cps |-> cps[k].risk_score]) \div Len(cps)

get_global_risk_level(cps) == first_level(get_global_risk_index(cps))

\* One pass of the loop of get_risk_distribution.
distribution_step(distribution, cp) ==
    LET level == get_risk_level(cp).label
    IN  IF level = "LOW" THEN [distribution EXCEPT !.low = @ + 1]
        ELSE IF level = "MODERATE" THEN [distribution EXCEPT !.moderate = @ + 1]
        ELSE IF level = "HIGH" THEN [distribution EXCEPT !.high = @ + 1]
        ELSE [distribution EXCEPT !.critical = @ + 1]

RECURSIVE distribution_loop(_, _)
distribution_loop(distribution, cps) ==
    IF cps = << >> THEN distribution
    ELSE distribution_loop(distribution_step(distribution, Head(cps)), Tail(cps))

get_risk_distribution(cps) ==
    distribution_loop([low |-> 0, moderate |-> 0, high |-> 0, critical |-> 0], cps)

\* max(self.chokepoints, key=...): the first chokepoint of the largest score,
\* None for no chokepoints.
get_highest_risk_chokepoint(cps) ==
    IF cps = << >> THEN << >>
    ELSE LET top == {k \in DOMAIN cps : \A m \in DOMAIN cps : cps[m].risk_score <= cps[k].risk_score}
         IN  <<cps[CHOOSE k \in top : \A m \in top : k <= m]>>

\* The risk scores load_sample_data adds, in its order.
SampleScores == <<20, 15, 5, 30, 10, 30>>

----------------------------------------------------------------------------
\* The forecasts the runs are checked on.

\* One hour's observation, and the hourly arrays of a forecast whose hour j
\* (from 1) is obs[j].
Obs(w, v, p) == [wind |-> w, vis |-> v, precip |-> p]

Hourly(obs) ==
    [windspeed_10m |-> [j \in DOMAIN obs |-> obs[j].wind],
     visibility |-> [j \in DOMAIN obs |-> obs[j].vis],
     precipitation |-> [j \in DOMAIN obs |-> obs[j].precip]]

\* Every threshold of T with the value a hundredth below and above it.
Around(T) == UNION {{t - 1, t, t + 1} : t \in T}

WindValues ==
    Around({H(15), H(20), H(25), H(35), H(40), H(45), H(60)}) \cup {H(-5), 0}
VisValues ==
    Around({H(500), H(1000), H(2000), H(5000), H(10000)}) \cup {H(-5), 0}
PrecipValues ==
    Around({0, PrecipHalf, H(2), H(5), H(10)}) \cup {H(-5)}

Calm == Obs(H(10), H(20000), 0)
Fresh == Obs(H(30), H(3000), H(3))
Rough == Obs(H(65), H(300), H(12))
BaseObs == {Calm, Fresh, Rough}

\* Every value of one factor beside the other two factors of a base observation.
AxisObs ==
    UNION {{Obs(w, b.vis, b.precip) : w \in WindValues}
               \cup {Obs(b.wind, v, b.precip) : v \in VisValues}
               \cup {Obs(b.wind, b.vis, p) : p \in PrecipValues} : b \in BaseObs}

\* One value inside every step of either preset, in every combination.
WindSteps == {H(10), H(18), H(22), H(30), H(38), H(42), H(50), H(65)}
VisSteps == {H(20000), H(8000), H(3000), H(1500), H(800), H(300)}
PrecipSteps == {0, 30, H(1), H(3), H(8), H(12)}

StepObs == {Obs(w, v, p) : w \in WindSteps, v \in VisSteps, p \in PrecipSteps}

\* The observations of the hour that differs from the rest.
SpikeObs ==
    {Obs(w, v, p) : w \in {H(5), H(42), H(70)}, v \in {H(30000), H(1500), H(100)},
                    p \in {H(-1), H(1), H(15)}}

Uniform(o, n) == [j \in 1..n |-> o]
Spiked(base, spike, k, n) == [j \in 1..n |-> IF j = k + 1 THEN spike ELSE base]

\* Hours (from 0) at which one observation differs from the rest.
SpikeHours == {0, 4, Window - 1} \cup (Window .. Window + ExtraHours - 1)

\* Lengths below the window.
ShortLens == {0, 7, 20}

UniformFeeds == {Hourly(Uniform(o, Window)) : o \in AxisObs \cup StepObs}

SpikedFeeds ==
    UNION {{Hourly(Spiked(b, s, k, n)) : k \in {x \in SpikeHours : x < n}} :
               b \in BaseObs, s \in SpikeObs, n \in Window .. Window + ExtraHours}

ShortFeeds == {Hourly(Uniform(b, n)) : b \in BaseObs, n \in ShortLens}

Presets == {"chokepoint-transit", "port-operations"}

NoHourly == [windspeed_10m |-> << >>, visibility |-> << >>, precipitation |-> << >>]

----------------------------------------------------------------------------
\* main() of either dashboard: fetch, assess and append one location after
\* the other, then write the outputs.

\* extract_24h(h): the first 24 hours as a list of dicts.
extract_24h(hourly) ==
    [j \in 1..Window |-> [wind |-> hourly.windspeed_10m[j],
                          vis |-> hourly.visibility[j],
                          precip |-> hourly.precipitation[j]]]

\* The exception building an entry ends with before compute_risk is called:
\* "current" reads h[...][0] and extract_24h indexes the arrays up to hour 23.
entry_raises(hourly) ==
    IF hourly_raises(hourly) # "none" THEN hourly_raises(hourly)
    ELSE IF Len(hourly.windspeed_10m) < Window \/ Len(hourly.visibility) < Window
           \/ Len(hourly.precipitation) < Window
        THEN "IndexError"
    ELSE "none"

\* The fields of an entry that do not depend on the dashboard.
entry_head(name, hourly) ==
    [name |-> name,
     current |-> [wind_kmh |-> hourly.windspeed_10m[1],
                  visibility_m |-> hourly.visibility[1],
                  precip_mm |-> hourly.precipitation[1]],
     forecast_24h |-> extract_24h(hourly)]

\* What fetch_forecast and data["hourly"] end with on a response that is not
\* a forecast: a request that fails raises out of client.get; an error status
\* raises out of raise_for_status in the port dashboard, and in the
\* chokepoint dashboard its body, which has no "hourly", is returned.
fetch_raises(p, response) ==
    IF response.fault = "request" THEN "httpx.RequestError"
    ELSE IF p = "port-operations" THEN "httpx.HTTPStatusError"
    ELSE "KeyError"

crash(exc) ==
    /\ raised' = exc
    /\ pc' = "crashed"
    /\ UNCHANGED <<preset, feed, i, h, results, frames, metrics, chokepoints>>

fetch(p) ==
    /\ preset = p
    /\ pc = "loop"
    /\ i < Len(feed)
    /\ IF "fault" \in DOMAIN feed[i + 1]
           THEN crash(fetch_raises(p, feed[i + 1]))
       ELSE /\ h' = feed[i + 1]
            /\ pc' = "fetched"
            /\ UNCHANGED <<preset, feed, i, results, raised, frames, metrics, chokepoints>>

\* append putting the entry in front of the list.
append_front(risk, frame) ==
    /\ results' = <<[head |-> entry_head(i + 1, h), risk |-> risk]>> \o results
    /\ frames' = <<frame>> \o frames
    /\ i' = i + 1
    /\ pc' = "loop"
    /\ UNCHANGED <<preset, feed, h, raised, metrics, chokepoints>>

append(risk, frame) ==
    /\ results' = Append(results, [head |-> entry_head(i + 1, h), risk |-> risk])
    /\ frames' = Append(frames, frame)
    /\ i' = i + 1
    /\ pc' = "loop"
    /\ UNCHANGED <<preset, feed, h, raised, metrics, chokepoints>>

\* generate_html_dashboard(data) and generate_html(data): the global metrics
\* of the entries of data, from which the summary of the page is written.
generate(p) ==
    /\ metrics' = <<IF p = "chokepoint-transit" THEN Cp_compute_global_metrics(results)
                    ELSE Port_compute_global_metrics(results)>>
    /\ pc' = "done"
    /\ UNCHANGED <<preset, feed, i, h, results, raised, frames, chokepoints>>

\* After the loop: the response is saved and the page is generated from it.
save(p) ==
    /\ preset = p
    /\ pc = "loop"
    /\ i = Len(feed)
    /\ generate(p)

Cp_main_fetch == fetch("chokepoint-transit")

Cp_main_entry ==
    /\ preset = "chokepoint-transit"
    /\ pc = "fetched"
    /\ IF entry_raises(h) # "none" THEN crash(entry_raises(h))
       ELSE IF Cp_compute_risk_raises(h) # "none" THEN crash(Cp_compute_risk_raises(h))
       ELSE append(Cp_compute_risk(h), Cp_compute_risk_frame(h))

Cp_main_save == save("chokepoint-transit")

Port_main_fetch == fetch("port-operations")

Port_main_entry ==
    /\ preset = "port-operations"
    /\ pc = "fetched"
    /\ IF entry_raises(h) # "none" THEN crash(entry_raises(h))
       ELSE IF Port_compute_risk_raises(h) # "none" THEN crash(Port_compute_risk_raises(h))
       ELSE append(Port_compute_risk(h), Port_compute_risk_frame(h))

Port_main_save == save("port-operations")

Start(feeds) ==
    /\ preset \in Presets
    /\ feed \in feeds
    /\ i = 0
    /\ pc = "loop"
    /\ h = NoHourly
    /\ results = << >>
    /\ raised = "none"
    /\ frames = << >>
    /\ metrics = << >>
    /\ chokepoints = << >>

\* A run over one location.
Init == Start({<<f>> : f \in UniformFeeds \cup SpikedFeeds \cup ShortFeeds})

Next ==
    \/ Cp_main_fetch
    \/ Cp_main_entry
    \/ Cp_main_save
    \/ Port_main_fetch
    \/ Port_main_entry
    \/ Port_main_save

Spec == Init /\ [][Next]_vars

\* Every composite score a uniform forecast of StepObs yields, once per preset.
Cp_sum(o) == Cp_score(Cp_wind_risk(o.wind), Cp_vis_risk(o.vis), Cp_precip_risk(o.precip))
Port_sum(o) ==
    Port_score(Port_wind_score(o.wind), Port_vis_score(o.vis), Port_precip_score(o.precip))

\* The first observation of a set, by wind, then visibility, then precipitation.
Before(a, b) ==
    \/ a.wind < b.wind
    \/ a.wind = b.wind /\ a.vis < b.vis
    \/ a.wind = b.wind /\ a.vis = b.vis /\ a.precip < b.precip

First(S) == CHOOSE o \in S : \A q \in S \ {o} : Before(o, q)

LadderObs ==
    {First({o \in StepObs : Cp_sum(o) = c}) : c \in {Cp_sum(o) : o \in StepObs}}
        \cup {First({o \in StepObs : Port_sum(o) = c}) : c \in {Port_sum(o) : o \in StepObs}}

\* Pairs of uniform forecasts: two values of one factor beside calm values of
\* the other two, and two observations of the ladder of composite scores.
PairObs ==
    {<<Obs(a, Calm.vis, Calm.precip), Obs(b, Calm.vis, Calm.precip)>> :
         a \in WindValues, b \in WindValues}
        \cup {<<Obs(Calm.wind, a, Calm.precip), Obs(Calm.wind, b, Calm.precip)>> :
                  a \in VisValues, b \in VisValues}
        \cup {<<Obs(Calm.wind, Calm.vis, a), Obs(Calm.wind, Calm.vis, b)>> :
                  a \in PrecipValues, b \in PrecipValues}
        \cup (LadderObs \X LadderObs)

\* A run over two locations.
InitPair ==
    Start({<<Hourly(Uniform(q[1], Window)), Hourly(Uniform(q[2], Window))>> : q \in PairObs})

SpecPair == InitPair /\ [][Next]_vars

\* A forecast whose arrays have lengths a, b and c, every hour that of o.
Ragged(o, a, b, c) ==
    [windspeed_10m |-> [j \in 1..a |-> o.wind],
     visibility |-> [j \in 1..b |-> o.vis],
     precipitation |-> [j \in 1..c |-> o.precip]]

\* A forecast without the array of one key.
Without(hourly, key) == [k \in DOMAIN hourly \ {key} |-> hourly[k]]

\* Array lengths: none, below the window, the window and beyond it.
SeriesLens == {0, 20} \cup (Window .. Window + ExtraHours)

\* Forecasts whose three arrays are not of one length.
RaggedFeeds ==
    {Ragged(o, t[1], t[2], t[3]) :
         o \in BaseObs,
         t \in {u \in SeriesLens \X SeriesLens \X SeriesLens : u[1] # u[2] \/ u[2] # u[3]}}

MissingFeeds ==
    {Without(Ragged(o, n, n, n), key) :
         o \in BaseObs, n \in {20} \cup (Window .. Window + ExtraHours), key \in Factors}

\* Forecasts of equal arrays, of every length.
EvenFeeds == {Ragged(o, n, n, n) : o \in BaseObs, n \in SeriesLens}

\* Responses that are no forecast: the request failed, or the server
\* answered with an error status.
FaultFeeds == {[fault |-> "request"], [fault |-> "status"]}

\* A run over one location whose response is of any of these shapes.
InitSeries ==
    Start({<<f>> : f \in RaggedFeeds \cup MissingFeeds \cup EvenFeeds \cup FaultFeeds})

SpecSeries == InitSeries /\ [][Next]_vars

\* The number of locations of a run, at most.
MaxLocations == 3

\* The lists of 1 to n elements of S.
Lists(S, n) == UNION {[1..m -> S] : m \in 1..n}

\* The responses of a run over several locations: a calm, a fresh and a rough
\* forecast, a forecast of 20 hours and the two failures of a request.
RunFeeds ==
    {Hourly(Uniform(o, Window)) : o \in BaseObs}
        \cup {Hourly(Uniform(Calm, 20))} \cup FaultFeeds

\* A run over one to MaxLocations locations.
InitRun == Start(Lists(RunFeeds, MaxLocations))

SpecRun == InitRun /\ [][Next]_vars

\* A call of generate_html_dashboard(data) or generate_html(data) on given
\* data, whose entries are in results.
Cp_generate_html_dashboard ==
    /\ preset = "chokepoint-transit"
    /\ pc = "data"
    /\ generate("chokepoint-transit")

Port_generate_html ==
    /\ preset = "port-operations"
    /\ pc = "data"
    /\ generate("port-operations")

\* Risk scores of chokepoints: every threshold of RiskLevel and the score
\* above it.
MaritimeScores == {0, 5, 6, 30, 31, 70, 71, 100, 101}

\* dashboard.add_chokepoint(ChokePoint(...)) on a MaritimeDashboard.
Maritime_add_chokepoint ==
    /\ preset = "maritime-dashboard"
    /\ pc = "dashboard"
    /\ Len(chokepoints) < MaxLocations
    /\ \E score \in MaritimeScores :
           chokepoints' = Append(chokepoints,
                                 [name |-> Len(chokepoints) + 1, risk_score |-> score])
    /\ UNCHANGED <<preset, feed, i, pc, h, results, raised, frames, metrics>>

\* dashboard.load_sample_data() on a new MaritimeDashboard, as main() calls it.
Maritime_load_sample_data ==
    /\ preset = "maritime-dashboard"
    /\ pc = "dashboard"
    /\ chokepoints = << >>
    /\ chokepoints' = [k \in DOMAIN SampleScores |-> [name |-> k, risk_score |-> SampleScores[k]]]
    /\ UNCHANGED <<preset, feed, i, pc, h, results, raised, frames, metrics>>

\* dashboard.generate_html(): the four values the page is written from.
Maritime_generate_html ==
    /\ preset = "maritime-dashboard"
    /\ pc = "dashboard"
    /\ metrics' = <<[global_risk |-> get_global_risk_index(chokepoints),
                     global_level |-> get_global_risk_level(chokepoints),
                     highest_risk |-> get_highest_risk_chokepoint(chokepoints),
                     distribution |-> get_risk_distribution(chokepoints)]>>
    /\ pc' = "done"
    /\ UNCHANGED <<preset, feed, i, h, results, raised, frames, chokepoints>>

\* An entry of the data of a dashboard: its name, score and level.
Entry(name, score, level) ==
    [head |-> [name |-> name], risk |-> [score |-> score, level |-> level]]

\* The scores and levels of the entries: either side of 30 and of 60, the
\* ends of the scale, and two entries whose level is not that of their score.
ScoredLevels ==
    {<<0, "low">>, <<10, "low">>, <<29, "low">>, <<30, "moderate">>, <<35, "moderate">>,
     <<59, "moderate">>, <<60, "high">>, <<72, "high">>, <<100, "high">>,
     <<10, "high">>, <<72, "low">>}

\* The data of a call: no entry, or a list of up to MaxLocations of them.
DataLists ==
    {<< >>} \cup {[k \in DOMAIN q |-> Entry(k, q[k][1], q[k][2])] :
                     q \in Lists(ScoredLevels, MaxLocations)}

\* A call of either page generator on given data, or a new MaritimeDashboard.
InitGlobal ==
    /\ \/ preset \in Presets /\ pc = "data" /\ results \in DataLists
       \/ preset = "maritime-dashboard" /\ pc = "dashboard" /\ results = << >>
    /\ feed = << >>
    /\ i = 0
    /\ h = NoHourly
    /\ raised = "none"
    /\ frames = << >>
    /\ metrics = << >>
    /\ chokepoints = << >>

NextGlobal ==
    \/ Cp_generate_html_dashboard
    \/ Port_generate_html
    \/ Maritime_add_chokepoint
    \/ Maritime_load_sample_data
    \/ Maritime_generate_html

SpecGlobal == InitGlobal /\ [][NextGlobal]_vars

\* Forecasts whose hours 0..2 and 3..5 differ: hours 0..2 are near, hours
\* 3..5 are mid and every later hour is the last of mid.
Outlook(near, mid) ==
    Hourly([j \in 1..Window |-> IF j <= 3 THEN near[j] ELSE IF j <= 6 THEN mid[j - 3] ELSE mid[3]])

\* The observation o with d added to one factor.
Shift(o, dw, dv, dp) == Obs(o.wind + dw, o.vis + dv, o.precip + dp)

\* Differences of the two averages on, just inside and just beyond the
\* threshold T of a factor, either way.
Deltas(T) == {-(T + H(1)), -T, T, T + H(1)}

\* Hours 0..2 of one factor: the same value twice and r more in hour 2.
NearValues(a) == {<<a, a, a + H(r)>> : r \in 0..2}

\* One factor moves by a difference of Deltas from hours 0..2 to hours 3..5,
\* the other two stay.
OneFactorFeeds ==
    UNION {{Outlook([j \in 1..3 |-> Obs(n[j], H(20000), H(3))],
                    [j \in 1..3 |-> Obs(n[j] + d, H(20000), H(3))]) :
                n \in NearValues(H(7)) \cup NearValues(H(12))} : d \in Deltas(H(5))}
        \cup UNION {{Outlook([j \in 1..3 |-> Obs(H(10), n[j], H(3))],
                             [j \in 1..3 |-> Obs(H(10), n[j] + d, H(3))]) :
                         n \in NearValues(H(4000)) \cup NearValues(H(10000))} :
                        d \in Deltas(H(2000))}
        \cup UNION {{Outlook([j \in 1..3 |-> Obs(H(10), H(20000), n[j])],
                             [j \in 1..3 |-> Obs(H(10), H(20000), n[j] + d)]) :
                         n \in NearValues(H(3)) \cup NearValues(H(4))} : d \in Deltas(H(2))}

\* Every factor moves beyond its threshold one way or the other, or stays.
AllFactorFeeds ==
    {Outlook(Uniform(Obs(H(10), H(8000), H(3)), 3),
             Uniform(Shift(Obs(H(10), H(8000), H(3)), dw, dv, dp), 3)) :
         dw \in {-H(6), 0, H(6)}, dv \in {-H(2001), 0, H(2001)}, dp \in {-H(3), 0, H(3)}}

\* Hours 0..5 alike and hour 6 onwards another observation.
Turn(first, later) ==
    Hourly([j \in 1..Window |-> IF j <= 6 THEN first ELSE later])

\* Winds of tenths and hundredths of a km/h, and whole ones.
TurnWinds == {70, 330, 570, 830, 1010, 1510, 1275, H(10)}

\* Hour 6's wind on, just inside and just beyond 5 km/h from hour 0's,
\* either way, with visibility and precipitation staying or worsening.
TurnFeeds ==
    {Turn(Obs(w, H(8000), H(3)), Obs(w + d, v, p)) :
         w \in TurnWinds, d \in {-501, -500, -499, 499, 500, 501},
         v \in {H(8000), H(900)}, p \in {H(3), H(6)}}

OutlookFeeds == OneFactorFeeds \cup AllFactorFeeds \cup {f \in TurnFeeds : f.windspeed_10m[7] >= 0}

\* A run over one location whose forecast changes within its first six hours.
InitOutlook == Start({<<f>> : f \in OutlookFeeds})

SpecOutlook == InitOutlook /\ [][Next]_vars

----------------------------------------------------------------------------
\* What the properties below read off a run.

Assessed == DOMAIN results

\* The largest and smallest of hours 0..23 of an array, and its reference hour.
WindowMax(seq) == CHOOSE x \in {seq[j] : j \in 1..24} : \A j \in 1..24 : seq[j] <= x
WindowMin(seq) == CHOOSE x \in {seq[j] : j \in 1..24} : \A j \in 1..24 : x <= seq[j]
ReferenceHour(seq) == seq[1]

\* The step functions of the two presets as the specification tabulates
\* them, on hundredths of a unit.
ChokepointWindTable(x) ==
    CASE x < 2000 -> 5
      [] x >= 2000 /\ x < 4000 -> 15
      [] x >= 4000 /\ x < 6000 -> 30
      [] x >= 6000 -> 40

ChokepointVisTable(x) ==
    CASE x > 1000000 -> 0
      [] x <= 1000000 /\ x > 500000 -> 5
      [] x <= 500000 /\ x > 100000 -> 10
      [] x <= 100000 -> 20

ChokepointPrecipTable(x) ==
    CASE x = 0 -> 0
      [] x # 0 /\ x < 200 -> 5
      [] x >= 200 /\ x < 1000 -> 10
      [] x >= 1000 -> 20

PortWindTable(x) ==
    CASE x <= 1500 -> 0
      [] x > 1500 /\ x <= 2500 -> 10
      [] x > 2500 /\ x <= 3500 -> 20
      [] x > 3500 /\ x <= 4500 -> 35
      [] x > 4500 -> 50

PortVisTable(x) ==
    CASE x > 1000000 -> 0
      [] x <= 1000000 /\ x > 500000 -> 5
      [] x <= 500000 /\ x > 200000 -> 10
      [] x <= 200000 /\ x > 50000 -> 20
      [] x <= 50000 -> 30

PortPrecipTable(x) ==
    CASE x <= 50 -> 0
      [] x > 50 /\ x <= 200 -> 5
      [] x > 200 /\ x <= 500 -> 10
      [] x > 500 /\ x <= 1000 -> 15
      [] x > 1000 -> 20

\* C1: under chokepoint-transit the factor contributions of every assessment
\* are those of the preset's table: wind <20 -> 5, <40 -> 15, <60 -> 30, else
\* 40; visibility >10000 -> 0, >5000 -> 5, >1000 -> 10, else 20; precipitation
\* =0 -> 0, <2 -> 5, <10 -> 10, else 20, with a value on a boundary following
\* the stated operator.  It is read off the composite's contributions (scored
\* from the window's maximum wind, minimum visibility and maximum
\* precipitation) and off every hour of the strip (scored from the hour's own
\* values).
C1_ChokepointTable ==
    preset = "chokepoint-transit" =>
        \A k \in Assessed :
            /\ results[k].risk.factors.wind
                   = ChokepointWindTable(WindowMax(feed[k].windspeed_10m))
            /\ results[k].risk.factors.visibility
                   = ChokepointVisTable(WindowMin(feed[k].visibility))
            /\ results[k].risk.factors.precipitation
                   = ChokepointPrecipTable(WindowMax(feed[k].precipitation))
            /\ \A j \in 1..24 :
                   /\ frames[k].hr[j].w = ChokepointWindTable(feed[k].windspeed_10m[j])
                   /\ frames[k].hr[j].v = ChokepointVisTable(feed[k].visibility[j])
                   /\ frames[k].hr[j].p = ChokepointPrecipTable(feed[k].precipitation[j])

\* C1 witness: an assessment whose maximum wind is exactly 20 km/h (scored 15),
\* whose minimum visibility is above 10000 m and whose precipitation is 0.
C1_Witness ==
    /\ preset = "chokepoint-transit"
    /\ Len(results) = 1
    /\ WindowMax(feed[1].windspeed_10m) = 2000
    /\ WindowMax(feed[1].precipitation) = 0
    /\ results[1].risk.factors.wind = 15
    /\ results[1].risk.factors.precipitation = 0

\* C2: under port-operations the factor contributions of every assessment
\* are those of the preset's table: wind <=15 -> 0, <=25 -> 10, <=35 -> 20,
\* <=45 -> 35, else 50; visibility >10000 -> 0, >5000 -> 5, >2000 -> 10,
\* >500 -> 20, else 30; precipitation <=0.5 -> 0, <=2 -> 5, <=5 -> 10,
\* <=10 -> 15, else 20, with a value on a boundary following the stated
\* operator.  It is read off the composite's contributions (scored from the
\* reference hour) and off every hour of the strip.
C2_PortTable ==
    preset = "port-operations" =>
        \A k \in Assessed :
            /\ frames[k].wind = PortWindTable(ReferenceHour(feed[k].windspeed_10m))
            /\ frames[k].visibility = PortVisTable(ReferenceHour(feed[k].visibility))
            /\ frames[k].precipitation = PortPrecipTable(ReferenceHour(feed[k].precipitation))
            /\ \A j \in 1..24 :
                   /\ frames[k].hr[j].w = PortWindTable(feed[k].windspeed_10m[j])
                   /\ frames[k].hr[j].v = PortVisTable(feed[k].visibility[j])
                   /\ frames[k].hr[j].p = PortPrecipTable(feed[k].precipitation[j])

\* C2 witness: an assessment whose reference wind is exactly 45 km/h, scored 35.
C2_Witness ==
    /\ preset = "port-operations"
    /\ Len(results) = 1
    /\ ReferenceHour(feed[1].windspeed_10m) = 4500
    /\ frames[1].wind = 35

\* The value the composite path scores for assessment k: the window's
\* aggregate under chokepoint-transit, the reference hour under port-operations.
ScoredWind(k) ==
    IF preset = "chokepoint-transit" THEN WindowMax(feed[k].windspeed_10m)
    ELSE ReferenceHour(feed[k].windspeed_10m)
ScoredVis(k) ==
    IF preset = "chokepoint-transit" THEN WindowMin(feed[k].visibility)
    ELSE ReferenceHour(feed[k].visibility)
ScoredPrecip(k) ==
    IF preset = "chokepoint-transit" THEN WindowMax(feed[k].precipitation)
    ELSE ReferenceHour(feed[k].precipitation)

\* C3: under both presets each factor's score is monotonic non-decreasing in
\* the risk direction, for every value the code accepts: of two assessments,
\* and of two hours of a strip, the one with the larger wind never has the
\* smaller wind score, the one with the smaller visibility never has the
\* smaller visibility score, and the one with the larger precipitation never
\* has the smaller precipitation score.
C3_Monotonic ==
    /\ \A a \in Assessed, b \in Assessed :
           /\ ScoredWind(a) <= ScoredWind(b) => frames[a].wind <= frames[b].wind
           /\ ScoredVis(a) <= ScoredVis(b) => frames[a].visibility >= frames[b].visibility
           /\ ScoredPrecip(a) <= ScoredPrecip(b)
                  => frames[a].precipitation <= frames[b].precipitation
    /\ \A a \in Assessed, b \in Assessed : \A j \in 1..24 :
           /\ feed[a].windspeed_10m[j] <= feed[b].windspeed_10m[j]
                  => frames[a].hr[j].w <= frames[b].hr[j].w
           /\ feed[a].visibility[j] <= feed[b].visibility[j]
                  => frames[a].hr[j].v >= frames[b].hr[j].v
           /\ feed[a].precipitation[j] <= feed[b].precipitation[j]
                  => frames[a].hr[j].p <= frames[b].hr[j].p

\* The declared largest contribution of each factor, and the largest composite.
DeclaredMax(p) ==
    IF p = "chokepoint-transit" THEN [wind |-> 40, visibility |-> 20, precipitation |-> 20]
    ELSE [wind |-> 50, visibility |-> 30, precipitation |-> 20]

MaxPossible(p) == IF p = "chokepoint-transit" THEN 80 ELSE 100

\* C4: every factor contribution lies in its factor's declared range under
\* the active preset (chokepoint-transit wind 0..40, visibility 0..20,
\* precipitation 0..20; port-operations wind 0..50, visibility 0..30,
\* precipitation 0..20), in the composite and in every hour of the strip.
C4_ContributionRange ==
    \A k \in Assessed :
        /\ frames[k].wind \in 0 .. DeclaredMax(preset).wind
        /\ frames[k].visibility \in 0 .. DeclaredMax(preset).visibility
        /\ frames[k].precipitation \in 0 .. DeclaredMax(preset).precipitation
        /\ \A j \in 1..24 :
               /\ frames[k].hr[j].w \in 0 .. DeclaredMax(preset).wind
               /\ frames[k].hr[j].v \in 0 .. DeclaredMax(preset).visibility
               /\ frames[k].hr[j].p \in 0 .. DeclaredMax(preset).precipitation

\* C4 witness: an assessment in which an hour of the strip has the largest
\* precipitation contribution and the composite has the largest wind
\* contribution.
C4_Witness ==
    /\ Len(results) = 1
    /\ frames[1].wind = DeclaredMax(preset).wind
    /\ \E j \in 1..24 : frames[1].hr[j].p = DeclaredMax(preset).precipitation

Clamp(x, lo, hi) == IF x < lo THEN lo ELSE IF x > hi THEN hi ELSE x

\* C5: the composite score of every assessment is the sum of its three factor
\* contributions clamped to [0, max_possible] (80 under chokepoint-transit,
\* 100 under port-operations), and so an integer of that range.
C5_CompositeSum ==
    \A k \in Assessed :
        /\ results[k].risk.score
               = Clamp(frames[k].wind + frames[k].visibility + frames[k].precipitation,
                       0, MaxPossible(preset))
        /\ results[k].risk.score \in 0 .. MaxPossible(preset)

\* C5 witness: an assessment whose three contributions are all positive and
\* whose score is the largest possible.
C5_Witness ==
    /\ Len(results) = 1
    /\ frames[1].wind > 0 /\ frames[1].visibility > 0 /\ frames[1].precipitation > 0
    /\ results[1].risk.score = MaxPossible(preset)

LevelBucket(x) ==
    CASE x < 30 -> "low"
      [] x >= 30 /\ x < 60 -> "moderate"
      [] x >= 60 -> "high"

LevelColor(level) ==
    CASE level = "low" -> "#2ECC71"
      [] level = "moderate" -> "#F1C40F"
      [] level = "high" -> "#E74C3C"

\* C6: under both presets the level of a composite score s is low for s < 30,
\* moderate for 30 <= s < 60 and high for s >= 60, and the color is the one of
\* the level (low green, moderate yellow, high red).  It is read off every
\* assessment, and off the level and color code of either dashboard on every
\* integer of [0, max_possible] (29, 30, 59 and 60 among them).
C6_LevelBuckets ==
    /\ \A k \in Assessed :
           /\ results[k].risk.level = LevelBucket(results[k].risk.score)
           /\ results[k].risk.color = LevelColor(results[k].risk.level)
    /\ \A x \in 0..80 :
           Cp_level(x) = LevelBucket(x) /\ Cp_color(x) = LevelColor(LevelBucket(x))
    /\ \A x \in 0..100 :
           Port_level(x) = LevelBucket(x) /\ Port_color(x) = LevelColor(LevelBucket(x))

\* C6 witness: an assessment of score 30, moderate and yellow.
C6_Witness ==
    /\ Len(results) = 1
    /\ results[1].risk.score = 30
    /\ results[1].risk.level = "moderate"
    /\ results[1].risk.color = "#F1C40F"

\* C7: the composite score is taken, under chokepoint-transit, from the
\* maximum wind, the minimum visibility and the maximum precipitation of
\* hours 0..23 and, under port-operations, from the reference hour alone; no
\* observation at index 24 or beyond enters it.
C7_CompositeInputs ==
    \A k \in Assessed :
        results[k].risk.score =
            IF preset = "chokepoint-transit"
                THEN ChokepointWindTable(WindowMax(feed[k].windspeed_10m))
                         + ChokepointVisTable(WindowMin(feed[k].visibility))
                         + ChokepointPrecipTable(WindowMax(feed[k].precipitation))
            ELSE PortWindTable(ReferenceHour(feed[k].windspeed_10m))
                     + PortVisTable(ReferenceHour(feed[k].visibility))
                     + PortPrecipTable(ReferenceHour(feed[k].precipitation))

\* C7 witness: a chokepoint-transit assessment of a forecast whose hour 24
\* has more wind, less visibility and more precipitation than every hour of
\* the window, and whose score is that of the window.
C7_Witness ==
    /\ preset = "chokepoint-transit"
    /\ Len(results) = 1
    /\ Len(feed[1].windspeed_10m) > 24
    /\ feed[1].windspeed_10m[25] >= 6000 /\ WindowMax(feed[1].windspeed_10m) < 2000
    /\ feed[1].visibility[25] <= 100000 /\ WindowMin(feed[1].visibility) > 1000000
    /\ feed[1].precipitation[25] >= 1000 /\ WindowMax(feed[1].precipitation) = 0
    /\ results[1].risk.score = 5

\* The factor a reported dominant driver names.
DriverFactor(d) ==
    CASE d \in {"wind", "Wind-driven risk"} -> "wind"
      [] d \in {"visibility", "Visibility degradation"} -> "visibility"
      [] d \in {"precipitation", "Heavy precipitation"} -> "precipitation"

\* The factor of the largest contribution, by priority wind > visibility >
\* precipitation among equals.
PriorityDriver(w, v, p) ==
    IF w >= v /\ w >= p THEN "wind"
    ELSE IF v >= p THEN "visibility"
    ELSE "precipitation"

\* C8: under both presets the dominant driver of every assessment is the
\* highest-priority factor (wind > visibility > precipitation) among those
\* whose contribution is the largest of the three.
C8_DriverPriority ==
    \A k \in Assessed :
        DriverFactor(results[k].risk.dominant_driver)
            = PriorityDriver(frames[k].wind, frames[k].visibility, frames[k].precipitation)

\* n / d (d > 0) rounded to the nearest integer, a tie going up ...
NearestTieUp(n, d) ==
    CHOOSE r \in 0..200 : 2 * (r * d - n) <= d /\ 2 * (n - r * d) < d

\* ... and a tie going to the even neighbour.
NearestTieEven(n, d) ==
    CHOOSE r \in 0..200 :
        \/ 2 * (r * d - n) < d /\ 2 * (n - r * d) < d
        \/ r % 2 = 0 /\ (2 * (r * d - n) = d \/ 2 * (n - r * d) = d)

\* C9 as stated: the difficulty index of every assessment is composite /
\* max_possible * 100 rounded to the nearest integer (a half rounding up) and
\* clamped to [0,100], the composites 10, 30, 50 and 70 of chokepoint-transit,
\* which scale to a half, included.
C9_IndexRounded ==
    \A k \in Assessed :
        results[k].risk.tdi_score
            = Clamp(NearestTieUp(results[k].risk.score * 100, MaxPossible(preset)), 0, 100)

\* C9 as amended: the difficulty index of every assessment is composite /
\* max_possible * 100 rounded to the nearest integer, a half going to the even
\* neighbour, and clamped to [0,100]: the chokepoint-transit composites 10, 30,
\* 50 and 70 have the indices 12, 38, 62 and 88.
C9_IndexRoundedHalfEven ==
    \A k \in Assessed :
        /\ results[k].risk.tdi_score
               = Clamp(NearestTieEven(results[k].risk.score * 100, MaxPossible(preset)), 0, 100)
        /\ preset = "chokepoint-transit" =>
               /\ results[k].risk.score = 10 => results[k].risk.tdi_score = 12
               /\ results[k].risk.score = 30 => results[k].risk.tdi_score = 38
               /\ results[k].risk.score = 50 => results[k].risk.tdi_score = 62
               /\ results[k].risk.score = 70 => results[k].risk.tdi_score = 88

\* C9 witness: a chokepoint-transit assessment of composite 10, which scales
\* to 12.5, with the index 12.
C9_Witness ==
    /\ preset = "chokepoint-transit"
    /\ Len(results) = 1
    /\ results[1].risk.score = 10
    /\ results[1].risk.tdi_score = 12

\* C10: under both presets the difficulty index is monotonic non-decreasing
\* in the composite score (of two assessments, the one with the larger
\* composite never has the smaller index), it is 0 exactly when the composite
\* is 0 and 100 exactly when the composite is max_possible.
C10_IndexMonotonic ==
    /\ \A a \in Assessed, b \in Assessed :
           results[a].risk.score <= results[b].risk.score
               => results[a].risk.tdi_score <= results[b].risk.tdi_score
    /\ \A k \in Assessed :
           /\ results[k].risk.tdi_score = 0 <=> results[k].risk.score = 0
           /\ results[k].risk.tdi_score = 100 <=> results[k].risk.score = MaxPossible(preset)

\* C10 witness: two assessments, the second with the larger composite and the
\* larger index, its composite max_possible and its index 100.
C10_Witness ==
    /\ Len(results) = 2
    /\ results[1].risk.score < results[2].risk.score
    /\ results[1].risk.tdi_score < results[2].risk.tdi_score
    /\ results[2].risk.score = MaxPossible(preset)
    /\ results[2].risk.tdi_score = 100

\* The five difficulty categories by index, and a reported category in the
\* lower case the categories are named in.
CategoryBucket(x) ==
    CASE x < 20 -> "routine"
      [] x >= 20 /\ x < 40 -> "caution"
      [] x >= 40 /\ x < 60 -> "challenging"
      [] x >= 60 /\ x < 80 -> "hazardous"
      [] x >= 80 -> "severe"

CategoryName(c) ==
    CASE c = "Routine" -> "routine"
      [] c = "Caution" -> "caution"
      [] c = "Challenging" -> "challenging"
      [] c = "Hazardous" -> "hazardous"
      [] c = "Severe" -> "severe"
      [] c = "Low" -> "low"
      [] c = "Moderate" -> "moderate"
      [] c = "High" -> "high"

\* C11: under both presets the difficulty category of every assessment is
\* the 5-way bucket of its difficulty index (<20 routine, <40 caution, <60
\* challenging, <80 hazardous, otherwise severe), whatever its risk level.
C11_CategoryBuckets ==
    \A k \in Assessed :
        CategoryName(results[k].risk.tdi_category)
            = CategoryBucket(results[k].risk.tdi_score)

\* The sum of hours a..a+2 (from 0) of an array, three times their average.
Sum3(seq, a) == seq[a + 1] + seq[a + 2] + seq[a + 3]

\* Three times d = mid - near of an array.
D3(seq) == Sum3(seq, 3) - Sum3(seq, 0)

\* The outlook of the near/mid comparison of a forecast, in real numbers.
NearMidOutlook(hourly) ==
    LET worsening ==
            \/ D3(hourly.windspeed_10m) > 3 * H(5)
            \/ D3(hourly.visibility) < -(3 * H(2000))
            \/ D3(hourly.precipitation) > 3 * H(2)
        improving ==
            \/ D3(hourly.windspeed_10m) < -(3 * H(5))
            \/ D3(hourly.visibility) > 3 * H(2000)
            \/ D3(hourly.precipitation) < -(3 * H(2))
    IN  CASE worsening /\ ~improving -> "deteriorating"
          [] improving /\ ~worsening -> "improving"
          [] worsening /\ improving -> "mixed"
          [] ~worsening /\ ~improving -> "stable"

\* The outlook a reported sentence or word names.
OutlookKind(text) ==
    CASE text \in {"Conditions deteriorating over the next 6 hours.", "Deteriorating"}
             -> "deteriorating"
      [] text \in {"Conditions improving over the next 6 hours.", "Improving"}
             -> "improving"
      [] text = "Mixed signals: some factors improving, others deteriorating." -> "mixed"
      [] text \in {"Stable conditions expected over the next 6 hours.", "Stable"}
             -> "stable"

\* C12: the outlook of every chokepoint-transit assessment is the one of the
\* averages of each factor over hours 0..2 and 3..5: with d = mid - near,
\* deteriorating when worsening (d_wind > 5, d_vis < -2000 or d_precip > 2)
\* and not improving (d_wind < -5, d_vis > 2000 or d_precip < -2), improving
\* when improving and not worsening, mixed when both and stable when neither.
C12_NearMidOutlook ==
    preset = "chokepoint-transit" =>
        \A k \in Assessed :
            OutlookKind(results[k].risk.outlook_6h) = NearMidOutlook(feed[k])

\* C13: the outlook of every port-operations assessment is the one the
\* near/mid comparison of the three factors yields: deteriorating on a drop
\* of the average visibility of more than 2000 m or a rise of the average
\* precipitation of more than 2 mm as well as on a rise of the average wind
\* of more than 5 km/h, and mixed when factors disagree.
C13_PortNearMidOutlook ==
    preset = "port-operations" =>
        \A k \in Assessed :
            OutlookKind(results[k].risk.outlook_6h) = NearMidOutlook(feed[k])

Levels == {"low", "moderate", "high"}

\* C14: under both presets the risk strip of every assessment has exactly 24
\* entries, each of them low, moderate or high, whatever the length (24 or
\* more) of the forecast it was computed from.
C14_StripLength ==
    \A k \in Assessed :
        /\ Len(feed[k].windspeed_10m) >= 24
        /\ Len(results[k].risk.hourly_risk_strip) = 24
        /\ \A j \in 1..24 : results[k].risk.hourly_risk_strip[j] \in Levels

\* C14 witness: an assessment of a forecast of more than 24 hours whose strip
\* has 24 entries, not all of the same level.
C14_Witness ==
    /\ Len(results) = 1
    /\ Len(feed[1].windspeed_10m) > 24
    /\ Len(results[1].risk.hourly_risk_strip) = 24
    /\ \E a \in 1..24, b \in 1..24 :
           results[1].risk.hourly_risk_strip[a] # results[1].risk.hourly_risk_strip[b]

\* The level of one hour's observation by the tables of the composite score.
HourLevel(p, hourly, j) ==
    LevelBucket(IF p = "chokepoint-transit"
                    THEN ChokepointWindTable(hourly.windspeed_10m[j])
                             + ChokepointVisTable(hourly.visibility[j])
                             + ChokepointPrecipTable(hourly.precipitation[j])
                ELSE PortWindTable(hourly.windspeed_10m[j])
                         + PortVisTable(hourly.visibility[j])
                         + PortPrecipTable(hourly.precipitation[j]))

\* C15: under both presets, for every hour j of 0..23, entry j of the risk
\* strip is the level (<30 low, <60 moderate, else high) of the sum the step
\* functions of the composite score give for hour j's own wind, visibility
\* and precipitation; no other hour and no aggregate of the window enters
\* it, and the entries are in the order of the hours.
C15_StripPerHour ==
    \A k \in Assessed :
        \A j \in 1..24 :
            results[k].risk.hourly_risk_strip[j] = HourLevel(preset, feed[k], j)

\* C15 witness: a chokepoint-transit assessment of level high, from the peak
\* of one rough hour, whose strip is high in hour 4 alone and low elsewhere.
C15_Witness ==
    /\ preset = "chokepoint-transit"
    /\ Len(results) = 1
    /\ results[1].risk.level = "high"
    /\ results[1].risk.hourly_risk_strip[5] = "high"
    /\ \A j \in (1..24) \ {5} : results[1].risk.hourly_risk_strip[j] = "low"

\* A forecast of n observations, for some n below 24.
TooShort(hourly) ==
    /\ Factors \subseteq DOMAIN hourly
    /\ Len(hourly.windspeed_10m) < 24
    /\ Len(hourly.visibility) = Len(hourly.windspeed_10m)
    /\ Len(hourly.precipitation) = Len(hourly.windspeed_10m)

\* C16: under both presets a forecast of fewer than 24 observations (20, or
\* none) fails with InsufficientDataError and leaves no assessment, partial
\* or whole, of its location.
C16_InsufficientData ==
    /\ \A k \in Assessed : ~TooShort(feed[k])
    /\ (pc = "crashed" /\ "fault" \notin DOMAIN feed[i + 1] /\ TooShort(feed[i + 1])) =>
           /\ raised = "InsufficientDataError"
           /\ Len(results) = i

\* A forecast without one of the three factor arrays, or whose arrays are
\* not all of one length.
Malformed(hourly) ==
    \/ Factors \ DOMAIN hourly # {}
    \/ Len(hourly.visibility) # Len(hourly.windspeed_10m)
    \/ Len(hourly.precipitation) # Len(hourly.windspeed_10m)

\* C17: under both presets a forecast whose wind, visibility and
\* precipitation arrays are of unequal lengths (each of them may still hold
\* 24 entries or more) or that lacks one of the arrays fails with
\* MalformedSeriesError and leaves no assessment of its location.
C17_MalformedSeries ==
    /\ \A k \in Assessed : ~Malformed(feed[k])
    /\ (pc = "crashed" /\ "fault" \notin DOMAIN feed[i + 1] /\ Malformed(feed[i + 1])) =>
           raised = "MalformedSeriesError"

\* A response that is a forecast of three arrays of one length of 24 hours
\* or more.
Assessable(response) ==
    /\ Factors \subseteq DOMAIN response
    /\ Len(response.windspeed_10m) >= 24
    /\ Len(response.visibility) = Len(response.windspeed_10m)
    /\ Len(response.precipitation) = Len(response.windspeed_10m)

\* The locations of the run whose response can be assessed.
Successful == {k \in 1..Len(feed) : Assessable(feed[k])}

\* C18: under both presets the failure of one location (its request fails or
\* its series cannot be assessed) does not end the run for the others: when
\* the run is over, every other location has been fetched and assessed and
\* the global summary has been computed over the locations that succeeded.
C18_FailureIsolated ==
    pc \in {"done", "crashed"} =>
        /\ {results[k].head.name : k \in Assessed} = Successful
        /\ metrics # << >>
        /\ Successful # {} =>
               metrics[1].global_index
                   = CHOOSE x \in {results[k].risk.score : k \in Assessed} :
                         \A k \in Assessed : results[k].risk.score <= x

\* The number of entries of a list of assessments that have a level.
CountLevel(entries, level) ==
    Cardinality({k \in DOMAIN entries : entries[k].risk.level = level})

\* The level of a chokepoint of a MaritimeDashboard, by its risk score.
MaritimeLevel(cp) ==
    CASE cp.risk_score <= 5 -> "low"
      [] cp.risk_score > 5 /\ cp.risk_score <= 30 -> "moderate"
      [] cp.risk_score > 30 /\ cp.risk_score <= 70 -> "high"
      [] cp.risk_score > 70 -> "critical"

CountMaritime(cps, level) ==
    Cardinality({k \in DOMAIN cps : MaritimeLevel(cps[k]) = level})

\* The distribution a computed summary reports, by level.
Reported ==
    IF preset = "chokepoint-transit"
        THEN [low |-> metrics[1].counts_line[2], moderate |-> metrics[1].counts_line[4],
              high |-> metrics[1].counts_line[6]]
    ELSE IF preset = "port-operations" THEN metrics[1].counts
    ELSE metrics[1].distribution

\* C19: for every list of assessments the distribution counts each of them
\* exactly once: the count of a level is the number of assessments of that
\* level and the counts add up to the length of the list, in
\* compute_global_metrics of both dashboards and in
\* MaritimeDashboard.get_risk_distribution.
C19_DistributionCounts ==
    metrics # << >> =>
        IF preset \in Presets
            THEN /\ \A l \in Levels : Reported[l] = CountLevel(results, l)
                 /\ Reported.low + Reported.moderate + Reported.high = Len(results)
        ELSE /\ \A l \in Levels \cup {"critical"} : Reported[l] = CountMaritime(chokepoints, l)
             /\ Reported.low + Reported.moderate + Reported.high + Reported.critical
                    = Len(chokepoints)

\* C19 witness: the summary of three chokepoint-transit assessments, two of
\* them low and one high, reporting 2 low, 0 moderate and 1 high.
C19_Witness ==
    /\ preset = "chokepoint-transit"
    /\ metrics # << >>
    /\ Len(results) = 3
    /\ CountLevel(results, "low") = 2
    /\ CountLevel(results, "high") = 1
    /\ metrics[1].counts_line
           = <<"Risk distribution: ", 2, " low, ", 0, " moderate, ", 1, " high.">>

\* The largest composite score of a list of assessments.
MaxScore(entries) ==
    CHOOSE x \in {entries[k].risk.score : k \in DOMAIN entries} :
        \A k \in DOMAIN entries : entries[k].risk.score <= x

\* C20: for every list of one assessment or more, compute_global_metrics of
\* either dashboard returns as global_index the largest composite score of
\* the list and as global_level the level of that score (<30 low, <60
\* moderate, else high); scores 10, 35 and 72 give index 72 and level high.
C20_GlobalIndexIsMax ==
    (preset \in Presets /\ metrics # << >> /\ results # << >>) =>
        /\ metrics[1].global_index = MaxScore(results)
        /\ metrics[1].global_level = LevelBucket(MaxScore(results))

\* C20 witness: the summary of assessments of scores 10, 35 and 72 and levels
\* low, moderate and high: index 72, level high, one assessment per level.
C20_Witness ==
    /\ preset = "port-operations"
    /\ metrics # << >>
    /\ Len(results) = 3
    /\ results[1].risk = [score |-> 10, level |-> "low"]
    /\ results[2].risk = [score |-> 35, level |-> "moderate"]
    /\ results[3].risk = [score |-> 72, level |-> "high"]
    /\ metrics[1].global_index = 72
    /\ metrics[1].global_level = "high"
    /\ metrics[1].counts = [low |-> 1, moderate |-> 1, high |-> 1]

\* The scores of the locations a summary is computed from, in their order,
\* and the earliest position that holds the largest of them.
Scores ==
    IF preset \in Presets THEN [k \in DOMAIN results |-> results[k].risk.score]
    ELSE [k \in DOMAIN chokepoints |-> chokepoints[k].risk_score]

EarliestMax(scores) ==
    CHOOSE k \in DOMAIN scores :
        /\ \A m \in DOMAIN scores : scores[m] <= scores[k]
        /\ \A m \in DOMAIN scores : scores[m] = scores[k] => k <= m

\* The name and the score of the highest-risk location a computed summary
\* reports (a location is named by its position).
ReportedHighest ==
    IF preset = "chokepoint-transit"
        THEN [name |-> metrics[1].highest_line[2], score |-> metrics[1].highest_line[4]]
    ELSE IF preset = "port-operations"
        THEN [name |-> metrics[1].highest[1], score |-> results[metrics[1].highest[1]].risk.score]
    ELSE [name |-> metrics[1].highest_risk[1].name,
          score |-> metrics[1].highest_risk[1].risk_score]

\* C21: for every list of one location or more, the highest-risk location
\* reported is one of the largest composite score and, when several share that
\* score, the earliest of them in the list, in compute_global_metrics of both
\* dashboards and in MaritimeDashboard.get_highest_risk_chokepoint.
C21_HighestIsEarliestMax ==
    (metrics # << >> /\ Scores # << >>) =>
        /\ ReportedHighest.name = EarliestMax(Scores)
        /\ ReportedHighest.score = Scores[EarliestMax(Scores)]

\* C21 witness: the summary of three port-operations assessments of scores
\* 10, 72 and 72 names the second as the highest.
C21_Witness ==
    /\ preset = "port-operations"
    /\ metrics # << >>
    /\ Scores = <<10, 72, 72>>
    /\ metrics[1].highest = <<2>>

\* The largest of a list of scores.
Largest(scores) == scores[EarliestMax(scores)]

\* The global index and level a computed summary reports, the level in lower
\* case.
ReportedIndex ==
    IF preset \in Presets THEN metrics[1].global_index ELSE metrics[1].global_risk

ReportedLevel ==
    IF preset \in Presets THEN metrics[1].global_level
    ELSE CASE metrics[1].global_level.label = "LOW" -> "low"
           [] metrics[1].global_level.label = "MODERATE" -> "moderate"
           [] metrics[1].global_level.label = "HIGH" -> "high"
           [] metrics[1].global_level.label = "CRITICAL" -> "critical"

\* C22: in every variant, the MaritimeDashboard included, the global risk
\* index reported for a list of locations is the largest score of the list,
\* never an average of the scores, and the global risk level is the level of
\* that largest score; one severe location among low ones is reported with
\* its own score.
C22_IndexIsMaxEverywhere ==
    (metrics # << >> /\ Scores # << >>) =>
        /\ ReportedIndex = Largest(Scores)
        /\ ReportedLevel
               = IF preset \in Presets THEN LevelBucket(Largest(Scores))
                 ELSE MaritimeLevel([risk_score |-> Largest(Scores)])


\* C23: the outlook of every port-operations assessment is Deteriorating when
\* hour 6's wind is more than 5 km/h above the reference hour's, Improving
\* when it is more than 5 km/h below, and Stable otherwise, a difference of
\* exactly +5 or -5 km/h included; it is one of these three words, whatever
\* visibility and precipitation do.
C23_ReducedOutlook ==
    preset = "port-operations" =>
        \A k \in Assessed :
            results[k].risk.outlook_6h =
                ThresholdOutlook(feed[k].windspeed_10m[1], feed[k].windspeed_10m[7])


\* How severe a level is.
Severity(level) == CASE level = "low" -> 0 [] level = "moderate" -> 1 [] level = "high" -> 2

\* Every precipitation value of the series is non-negative.
NonNegativePrecip(hourly) ==
    \A j \in DOMAIN hourly.precipitation : hourly.precipitation[j] >= 0

\* C24: under chokepoint-transit, when the series has 24 or more observations
\* and no negative precipitation, the composite score is at least the
\* per-hour score of each of the 24 hours, and the level is at least as
\* severe as every entry of the hourly risk strip.
C24_CompositeDominatesStrip ==
    preset = "chokepoint-transit" =>
        \A k \in Assessed :
            (Len(feed[k].windspeed_10m) >= 24 /\ NonNegativePrecip(feed[k])) =>
                \A j \in 1..24 :
                    /\ results[k].risk.score >= frames[k].hr[j].score
                    /\ Severity(results[k].risk.level)
                           >= Severity(results[k].risk.hourly_risk_strip[j])

\* A high assessment of a forecast without negative precipitation whose
\* strip holds both a low and a high hour.
C24_Witness ==
    /\ preset = "chokepoint-transit"
    /\ Assessed # {}
    /\ NonNegativePrecip(feed[1])
    /\ results[1].risk.level = "high"
    /\ \E j \in 1..24 : results[1].risk.hourly_risk_strip[j] = "low"
    /\ \E j \in 1..24 : frames[1].hr[j].score = results[1].risk.score


\* C25: under port-operations, whenever the series has 24 or more
\* observations, the first entry of the hourly risk strip is the assessment's
\* level: the composite of the reference hour, capped at 100, and the strip's
\* own uncapped sum for hour 0 fall into the same bucket.
C25_StripStartsAtLevel ==
    preset = "port-operations" =>
        \A k \in Assessed :
            Len(feed[k].windspeed_10m) >= 24 =>
                results[k].risk.hourly_risk_strip[1] = results[k].risk.level

\* An assessment whose hour 0 reaches the cap of 100 on both paths while a
\* later hour of the strip is low.
C25_Witness ==
    /\ preset = "port-operations"
    /\ Assessed # {}
    /\ results[1].risk.score = 100
    /\ frames[1].hr[1].score = 100
    /\ results[1].risk.hourly_risk_strip[1] = "high"
    /\ \E j \in 2..24 : results[1].risk.hourly_risk_strip[j] = "low"


\* Every entry's level is the bucket of its own score.
ConsistentLevels ==
    \A k \in DOMAIN results : results[k].risk.level = LevelBucket(results[k].risk.score)

\* The most severe level a distribution holds, low when it holds none.
MostSevere(counts) ==
    IF counts.high > 0 THEN "high"
    ELSE IF counts.moderate > 0 THEN "moderate"
    ELSE "low"

\* C26: when every location's level is the bucket of its own score, the
\* global level compute_global_metrics returns is the most severe level of
\* the distribution it returns: high exactly when the high count is
\* positive, moderate exactly when no location is high and the moderate
\* count is positive, and low otherwise.
C26_GlobalLevelIsMostSevere ==
    (preset \in Presets /\ metrics # << >> /\ ConsistentLevels) =>
        metrics[1].global_level = MostSevere(Reported)

\* A summary of low and moderate locations, one of them of score 30, and of
\* no high one: the global level is moderate.
C26_Witness ==
    /\ preset = "chokepoint-transit"
    /\ metrics # << >>
    /\ ConsistentLevels
    /\ Reported.high = 0 /\ Reported.moderate > 0 /\ Reported.low > 0
    /\ MaxScore(results) = 30
    /\ metrics[1].global_level = "moderate"


\* The summary names no highest-risk location.
NoHighest ==
    IF preset = "chokepoint-transit"
        THEN metrics[1].highest_line = <<"No chokepoints currently assessed.">>
    ELSE metrics[1].highest = <<"N/A">>

\* The summary names one of the locations it was computed from.
SomeHighest ==
    \E k \in DOMAIN results :
        IF preset = "chokepoint-transit"
            THEN metrics[1].highest_line
                     = <<"Highest operational risk: ", results[k].head.name, " (Score ",
                         results[k].risk.score, ", ", results[k].risk.level, " risk).">>
        ELSE metrics[1].highest = <<results[k].head.name>>

\* C27: compute_global_metrics of either dashboard returns on an empty list,
\* without raising: global_index -1, global_level low, every count 0 and no
\* highest-risk location ("No chokepoints currently assessed." or "N/A"); on
\* a list of one location or more whose scores are all 0 or more the
\* global_index is 0 or more and a highest-risk location is reported.
C27_EmptyListSummary ==
    (preset \in Presets /\ pc = "done") =>
        /\ raised = "none"
        /\ metrics # << >>
        /\ results = << >> =>
               /\ metrics[1].global_index = -1
               /\ metrics[1].global_level = "low"
               /\ \A l \in Levels : Reported[l] = 0
               /\ NoHighest
        /\ (results # << >> /\ \A k \in DOMAIN results : results[k].risk.score >= 0) =>
               /\ metrics[1].global_index >= 0
               /\ SomeHighest

\* The summary of an empty list of ports.
C27_Witness ==
    /\ preset = "port-operations"
    /\ pc = "done"
    /\ results = << >>
    /\ metrics # << >>
    /\ metrics[1] = [global_level |-> "low", global_index |-> -1, highest |-> <<"N/A">>,
                     counts |-> [low |-> 0, moderate |-> 0, high |-> 0]]


\* The locations whose response has been retrieved and whose entry has not
\* been appended yet.
InFlight == IF pc = "fetched" THEN {i + 1} ELSE {}

\* The results are those of locations 1 to Len(results), in that order.
InConfiguredOrder ==
    \A k \in DOMAIN results :
        /\ results[k].head.name = k
        /\ results[k].head.forecast_24h = extract_24h(feed[k])

\* A step that retrieves a response.
Retrieves == pc # "fetched" /\ pc' = "fetched"

\* C28: the main loop of either dashboard handles its locations one at a
\* time in configured order: at most one response is retrieved and not yet
\* appended, the response of location k+1 is retrieved only when the entries
\* of locations 1..k have been appended, the result list is in configured
\* order, and the summary of the outputs exists only when every location
\* has been assessed.
C28_OneAtATime ==
    /\ [](preset \in Presets =>
              /\ Cardinality(InFlight) <= 1
              /\ InFlight \cap DOMAIN results = {}
              /\ InConfiguredOrder
              /\ metrics # << >> => DOMAIN results = DOMAIN feed)
    /\ [][(preset \in Presets /\ Retrieves) =>
              /\ h' = feed[Len(results) + 1]
              /\ InFlight' = {Len(results) + 1}]_vars

\* A run over three locations, a rough, a calm and a fresh one, that has
\* written its outputs.
C28_Witness ==
    /\ preset = "chokepoint-transit"
    /\ pc = "done"
    /\ metrics # << >>
    /\ Len(results) = 3
    /\ <<results[1].risk.score, results[2].risk.score, results[3].risk.score>> = <<80, 5, 35>>
    /\ InConfiguredOrder


\* The composites chokepoint-transit can produce lie among the multiples of
\* 5 from 5 to 80; those that scale to a half, and their indices.
Composites == {5 * m : m \in 1..16}
HalfwayIndex == (10 :> 12) @@ (30 :> 38) @@ (50 :> 62) @@ (70 :> 88)

\* Twice the distance of the index t from composite c scaled by 100 / 80, in
\* eightieths.
Twice80(c, t) == IF t * 80 >= c * 100 THEN 2 * (t * 80 - c * 100) ELSE 2 * (c * 100 - t * 80)

\* C29: under chokepoint-transit a composite whose scaled value composite *
\* 100 / 80 is exactly halfway between two integers has the even one of the
\* two as its difficulty index: 10, 30, 50 and 70 give 12, 38, 62 and 88;
\* every other composite (a multiple of 5 from 5 to 80) has the integer
\* nearest to its scaled value.
C29_HalfwayToEven ==
    preset = "chokepoint-transit" =>
        \A k \in Assessed :
            LET c == results[k].risk.score
                t == results[k].risk.tdi_score
            IN  /\ c \in Composites
                /\ IF c \in DOMAIN HalfwayIndex
                       THEN Twice80(c, t) = 80 /\ t % 2 = 0 /\ t = HalfwayIndex[c]
                   ELSE Twice80(c, t) < 80

\* A chokepoint-transit assessment of composite 30, which scales to 37.5,
\* with the index 38.
C29_Witness ==
    /\ preset = "chokepoint-transit"
    /\ Assessed # {}
    /\ results[1].risk.score = 30
    /\ results[1].risk.tdi_score = 38

====
